---- MODULE Spec2Model ----
(***************************************************************************)
(* Film-roll tool (src/app.py): the BOM catalog loader, the yield          *)
(* calculator, the thickness statistics, and the two CSV-backed tables     *)
(* (film_config.csv, film_thickness.csv) edited from Streamlit sessions.   *)
(*                                                                         *)
(* Numbers.  Python floats are modelled by exact rationals [n, d] in       *)
(* lowest terms (d > 0); None is its own value.  math.pi is the rational   *)
(* 355/113.  A standard deviation is kept as the square root of an exact   *)
(* rational, [sqrt |-> variance].                                          *)
(***************************************************************************)
EXTENDS Integers, Sequences, FiniteSets, TLC

VARIABLES
    bom_file,     \* BOM.xlsx as read_excel sees it
    bom_df,       \* the catalog load_bom returned ("unloaded" before the call)
    calc_in,      \* the five arguments of calc_labels_per_roll
    calc_out,     \* what the call did: "pending", [raised], or [value]
    stat_in,      \* the nine number_input values of tab 2
    stat_out,     \* "pending" or [avg, std]
    config_file,  \* film_config.csv on disk
    thick_file,   \* film_thickness.csv on disk
    started,      \* sessions whose st.session_state holds both tables
    config_df,    \* st.session_state["config_df"], per session
    thick_df,     \* st.session_state["thick_df"], per session
    last_op,      \* the last save click: who, which table, inputs, outcome
    last_writer,  \* per table, the session whose to_csv completed last
    recent,       \* per table, session and part number: the row of the latest save click
    n_saves       \* save clicks so far

vars == <<bom_file, bom_df, calc_in, calc_out, stat_in, stat_out, config_file,
          thick_file, started, config_df, thick_df, last_op, last_writer, recent, n_saves>>

\* ------------------------------------------------------------------ numbers

None == [none |-> TRUE]
\* A missing cell (pandas NaN), in a column of strings.
NaN == "NaN"

RECURSIVE GCD(_, _)
GCD(a, b) == IF b = 0 THEN a ELSE GCD(b, a % b)

Abs(x) == IF x < 0 THEN -x ELSE x

\* n/d in lowest terms with a positive denominator.
Rat(n, d) ==
    LET s == IF d < 0 THEN -1 ELSE 1
        g == GCD(Abs(n), Abs(d))
    IN  [n |-> (s * n) \div g, d |-> (s * d) \div g]

Whole(k) == [n |-> k, d |-> 1]

RMul(a, b) ==
    LET g1 == GCD(Abs(a.n), b.d)
        g2 == GCD(Abs(b.n), a.d)
        k1 == IF g1 = 0 THEN 1 ELSE g1
        k2 == IF g2 = 0 THEN 1 ELSE g2
    IN  Rat((a.n \div k1) * (b.n \div k2), (a.d \div k2) * (b.d \div k1))

\* a / b for b # 0; b = 0 is Python's ZeroDivisionError, told by the caller.
RDiv(a, b) == RMul(a, Rat(b.d, b.n))

RAdd(a, b) ==
    LET l == (a.d \div GCD(a.d, b.d)) * b.d
    IN  Rat(a.n * (l \div a.d) + b.n * (l \div b.d), l)

RSub(a, b) == RAdd(a, [n |-> -b.n, d |-> b.d])

RLe(a, b) == a.n * b.d <= b.n * a.d

\* int(x): truncation toward zero.
Trunc(x) == IF x.n >= 0 THEN x.n \div x.d ELSE -((-x.n) \div x.d)

Pi == Rat(355, 113)

Pending == [pending |-> TRUE]

\* What a Python call did: returned a value, or raised.
Returned(v) == [raised |-> FALSE, value |-> v]
Raised(e) == [raised |-> TRUE, error |-> e]

\* ------------------------------------------------- calc_labels_per_roll

\* `x <= 0`; with x = None Python raises TypeError.
LeZero(x) == IF x = None THEN Raised("TypeError") ELSE Returned(RLe(x, Whole(0)))

ArgGuard_NoNoneTest(x) == LeZero(x)

\* `x is None or x <= 0`
ArgGuard(x) == IF x = None THEN Returned(TRUE) ELSE LeZero(x)

\* The `or` chain of the first `if`: operands left to right, stopping at the
\* first true one; an operand that raises ends the call.
RECURSIVE OrChain(_)
OrChain(args) ==
    IF args = <<>> THEN Returned(FALSE)
    ELSE LET g == ArgGuard(Head(args))
         IN  IF g.raised THEN g
             ELSE IF g.value THEN Returned(TRUE)
             ELSE OrChain(Tail(args))

film_length_m(thickness_mm, roll_diam_cm, core_diam_cm) ==
    RMul(Pi,
         RDiv(RSub(RMul(RDiv(roll_diam_cm, Whole(100)), RDiv(roll_diam_cm, Whole(100))),
                   RMul(RDiv(core_diam_cm, Whole(100)), RDiv(core_diam_cm, Whole(100)))),
              RMul(Whole(4), RDiv(thickness_mm, Whole(1000)))))

sets(thickness_mm, roll_diam_cm, core_diam_cm, mark_set_cm) ==
    RDiv(film_length_m(thickness_mm, roll_diam_cm, core_diam_cm),
         RDiv(mark_set_cm, Whole(100)))

labels_TruncAfterMultiply(s, labels_per_set) == Trunc(RMul(s, labels_per_set))

\* `labels = int(sets) * int(labels_per_set)`
labels(s, labels_per_set) == Trunc(s) * Trunc(labels_per_set)

calc_labels_per_roll(thickness_mm, roll_diam_cm, core_diam_cm, mark_set_cm, labels_per_set) ==
    LET guard == OrChain(<<thickness_mm, roll_diam_cm, core_diam_cm,
                           mark_set_cm, labels_per_set>>)
    IN  IF guard.raised THEN guard
        ELSE IF guard.value THEN Returned(0)
        ELSE IF RLe(roll_diam_cm, core_diam_cm) THEN Returned(0)
        ELSE IF RMul(Whole(4), RDiv(thickness_mm, Whole(1000))).n = 0
                \/ RDiv(mark_set_cm, Whole(100)).n = 0
             THEN Returned(0)   \* except Exception (ZeroDivisionError)
        ELSE Returned(labels(sets(thickness_mm, roll_diam_cm, core_diam_cm, mark_set_cm),
                             labels_per_set))

\* Arguments the calls are tried on: None, zero, a negative, and valid values.
ThicknessArgs == {None, Whole(0), Rat(135, 1000), Rat(1, 5)}
RollArgs == {None, Whole(0), Whole(-30), Whole(5), Whole(9), Whole(12), Whole(30)}
CoreArgs == {None, Whole(0), Whole(9), Rat(15, 2)}
MarkSetArgs == {None, Whole(0), Rat(1145, 100), Whole(10)}
LabelsPerSetArgs == {None, Whole(0), Whole(-1), Whole(1), Whole(5), Rat(3, 2), Rat(5, 2)}

CalcArgs ==
    [thickness_mm : ThicknessArgs, roll_diam_cm : RollArgs, core_diam_cm : CoreArgs,
     mark_set_cm : MarkSetArgs, labels_per_set : LabelsPerSetArgs]

Calc ==
    /\ calc_out = Pending
    /\ calc_out' = calc_labels_per_roll(calc_in.thickness_mm, calc_in.roll_diam_cm,
                                        calc_in.core_diam_cm, calc_in.mark_set_cm,
                                        calc_in.labels_per_set)
    /\ UNCHANGED <<bom_file, bom_df, calc_in, stat_in, stat_out, config_file, thick_file,
                   started, config_df, thick_df, last_op, last_writer, recent, n_saves>>

\* ------------------------------------------------------ tab 2 statistics
\* Measurements are counted in thousandths of a millimetre (the step of the
\* number_input widgets), so 135 stands for 0.135 mm.

NineMeasurements == 9

RECURSIVE SumSeq(_)
SumSeq(q) == IF q = <<>> THEN 0 ELSE Head(q) + SumSeq(Tail(q))

RECURSIVE SumSqSeq(_)
SumSqSeq(q) == IF q = <<>> THEN 0 ELSE Head(q) * Head(q) + SumSqSeq(Tail(q))

IsMeasured_ZeroCounts(v) == v >= 0

\* `v > 0`
IsMeasured(v) == v > 0

\* `valid_vals = [v for v in inputs if v > 0]`
valid_vals(inputs) == SelectSeq(inputs, IsMeasured)

Sqrt(x) == [sqrt |-> x]

\* statistics.stdev: the exact sum of squares (n*sxx - sx*sx)/n over n - 1,
\* then the square root.
stdev(data) ==
    LET n == Len(data)
        sx == SumSeq(data)
        sxx == SumSqSeq(data)
    IN  Sqrt(RDiv(Rat(n * sxx - sx * sx, n), Whole(n - 1)))

avg(inputs) ==
    IF valid_vals(inputs) # <<>>
    THEN Rat(SumSeq(valid_vals(inputs)), Len(valid_vals(inputs)))
    ELSE Whole(0)

std(inputs) ==
    IF valid_vals(inputs) # <<>>
    THEN IF Len(valid_vals(inputs)) > 1 THEN stdev(valid_vals(inputs)) ELSE Sqrt(Whole(0))
    ELSE Sqrt(Whole(0))

MaxMeas == 2

Stats ==
    /\ stat_out = Pending
    /\ stat_out' = [avg |-> avg(stat_in), std |-> std(stat_in)]
    /\ UNCHANGED <<bom_file, bom_df, calc_in, calc_out, stat_in, config_file, thick_file,
                   started, config_df, thick_df, last_op, last_writer, recent, n_saves>>

\* --------------------------------------------------------------- load_bom
\* A row of the sheet: pumbun is column "품번", pummyeong column "품명.1"
\* (renamed "품명" in the catalog).

EmptyCatalog == <<>>

\* dropna(subset=["품번"])
dropna(rows) == SelectSeq(rows, LAMBDA r : r.pumbun # NaN)

RECURSIVE KeepFirst(_, _)
KeepFirst(rows, seen) ==
    IF rows = <<>> THEN <<>>
    ELSE IF Head(rows).pumbun \in seen THEN KeepFirst(Tail(rows), seen)
    ELSE <<Head(rows)>> \o KeepFirst(Tail(rows), seen \cup {Head(rows).pumbun})

RECURSIVE KeepLast(_)
KeepLast(rows) ==
    IF rows = <<>> THEN <<>>
    ELSE IF \E i \in 2..Len(rows) : rows[i].pumbun = Head(rows).pumbun
         THEN KeepLast(Tail(rows))
         ELSE <<Head(rows)>> \o KeepLast(Tail(rows))

drop_duplicates_KeepLast(rows) == KeepLast(rows)

\* drop_duplicates(subset=["품번"]): the first row of each part number stays.
drop_duplicates(rows) == KeepFirst(rows, {})

load_bom(file) ==
    IF ~file.exists THEN EmptyCatalog
    ELSE IF ~file.readable THEN EmptyCatalog
    ELSE IF ~file.has_columns THEN EmptyCatalog
    ELSE drop_duplicates(dropna(file.rows))

MaxBomRows == 3
BomPartNumbers == {"P1", "P2", NaN}
BomPartNames == {"film a", "film b"}
BomRows == [pumbun : BomPartNumbers, pummyeong : BomPartNames]
BomSheets == UNION {[1..n -> BomRows] : n \in 0..MaxBomRows}
BomFiles ==
    {[exists |-> FALSE, readable |-> FALSE, has_columns |-> FALSE, rows |-> <<>>],
     [exists |-> TRUE, readable |-> FALSE, has_columns |-> FALSE, rows |-> <<>>]}
    \cup [exists : {TRUE}, readable : {TRUE}, has_columns : BOOLEAN, rows : BomSheets]

LoadBom ==
    /\ bom_df = Pending
    /\ bom_df' = [rows |-> load_bom(bom_file)]
    /\ UNCHANGED <<bom_file, calc_in, calc_out, stat_in, stat_out, config_file, thick_file,
                   started, config_df, thick_df, last_op, last_writer, recent, n_saves>>

\* ------------------------------------------------------------ the tables
\* A table is the sequence of its rows.  Columns: pumbun "품번", pummyeong
\* "품명", film_thickness_mm "필름두께_mm", core_diam_cm "지관외경_cm",
\* mark_set_cm "아이마크세트길이_cm", labels_per_set "세트당라벨수", vendor
\* "거래처", meas "측정1".."측정9", avg "평균", std "표준편차".  Widget values are
\* counted in the widget's step (0.001 mm, 0.1 cm, 0.01 cm).  Part numbers
\* are strings that are not numerals, so astype(str) and the CSV round trip
\* leave them as they are.

Sessions == {"s1", "s2"}
MaxSaves == 3

\* The BOM the sessions run against: a duplicated part number and a row
\* without one.
StoreBom ==
    [exists |-> TRUE, readable |-> TRUE, has_columns |-> TRUE,
     rows |-> << [pumbun |-> "P2", pummyeong |-> "film b"],
                 [pumbun |-> NaN, pummyeong |-> "film a"],
                 [pumbun |-> "P1", pummyeong |-> "film a"],
                 [pumbun |-> "P2", pummyeong |-> "film a"] >>]

\* `품번_list`
pumbun_list(bom) == {bom[i].pumbun : i \in 1..Len(bom)}

\* `row["품명"].iloc[0] if not row.empty else ""`
pummyeong_of(bom, selected) ==
    LET row == SelectSeq(bom, LAMBDA r : r.pumbun = selected)
    IN  IF row # <<>> THEN row[1].pummyeong ELSE ""

AbsentFile == [exists |-> FALSE, header |-> FALSE, rows |-> <<>>]

\* A string cell on its way to the file: NaN is written as the empty field.
CsvCell(v) == IF v = NaN THEN "" ELSE v

\* A string cell on its way back: read_csv reads the empty field as NaN.
ParseCell(v) == IF v = "" THEN NaN ELSE v

ConfigToCsv(r) == [r EXCEPT !.pummyeong = CsvCell(@)]
ConfigFromCsv(r) == [r EXCEPT !.pummyeong = ParseCell(@)]
ThickToCsv(r) == [r EXCEPT !.pummyeong = CsvCell(@), !.vendor = CsvCell(@)]
ThickFromCsv(r) == [r EXCEPT !.pummyeong = ParseCell(@), !.vendor = ParseCell(@)]

\* df.to_csv(CONFIG_FILE, index=False): the whole file, header and rows.
config_to_csv(df) ==
    [exists |-> TRUE, header |-> TRUE, rows |-> [i \in 1..Len(df) |-> ConfigToCsv(df[i])]]

thick_to_csv(df) ==
    [exists |-> TRUE, header |-> TRUE, rows |-> [i \in 1..Len(df) |-> ThickToCsv(df[i])]]

\* read_csv raises EmptyDataError on a file without a header line.
Loadable(file) == ~file.exists \/ file.header

load_config(file) ==
    IF ~file.exists THEN <<>>
    ELSE [i \in 1..Len(file.rows) |-> ConfigFromCsv(file.rows[i])]

load_thickness(file) ==
    IF ~file.exists THEN <<>>
    ELSE [i \in 1..Len(file.rows) |-> ThickFromCsv(file.rows[i])]

save_config_MergeWithFile(df, file) ==
    LET kept == SelectSeq(file.rows,
                          LAMBDA r : \A i \in 1..Len(df) : df[i].pumbun # r.pumbun)
    IN  [exists |-> TRUE, header |-> TRUE,
         rows |-> kept \o [i \in 1..Len(df) |-> ConfigToCsv(df[i])]]

\* save_config: the file after `df.to_csv(CONFIG_FILE, ...)`; what was there
\* before is overwritten.
save_config(df, file) == config_to_csv(df)

\* save_thickness, likewise.
save_thickness(df, file) == thick_to_csv(df)

\* `config_df[config_df["품번"].astype(str) == str(selected_pumbun)]`
exist_rows(df, selected) == SelectSeq(df, LAMBDA r : r.pumbun = selected)

\* `... .index`: the positions of those rows.
index_of(df, selected) == {i \in 1..Len(df) : df[i].pumbun = selected}

\* `df.loc[idx, :] = new_row` with idx the index of the matching rows and
\* new_row a dict.  pandas turns the dict into a Series and, the row indexer
\* being list-like, aligns it on the ROW labels in idx: the column names match
\* none of them, so the value becomes len(idx) NaNs.  On a frame of mixed
\* dtypes (every table here: string, float and integer columns) the column-wise
\* setter then finds len(idx) values for all the columns and raises ValueError
\* ("Must have equal len keys and value when setting with an iterable")
\* before any cell is set.
loc_setitem(df, idx, new_row) == Raised("ValueError")

\* Lines 209-213: replace where the part number has a row, else append.
config_upsert(df, selected, new_row) ==
    IF exist_rows(df, selected) # <<>>
    THEN loc_setitem(df, index_of(df, selected), new_row)
    ELSE Returned(Append(df, new_row))   \* pd.concat(..., ignore_index=True)

\* Lines 360-364.
thick_upsert(df, selected, new_row_t) ==
    IF exist_rows(df, selected) # <<>>
    THEN loc_setitem(df, index_of(df, selected), new_row_t)
    ELSE Returned(Append(df, new_row_t))

new_row(selected, pummyeong, w) ==
    [pumbun |-> selected, pummyeong |-> pummyeong,
     film_thickness_mm |-> w.thickness_mm, core_diam_cm |-> w.core_diam_cm,
     mark_set_cm |-> w.mark_set_cm, labels_per_set |-> w.labels_per_set]

\* Lines 279-300: a blank text_input takes the vendor of the stored row.
vendor_of(df, selected, text_input) ==
    IF exist_rows(df, selected) # <<>>
    THEN IF text_input = "" THEN exist_rows(df, selected)[1].vendor ELSE text_input
    ELSE text_input

\* Lines 282-300: the widgets' defaults, the stored measurements or zeros.
base_vals(df, selected) ==
    IF exist_rows(df, selected) # <<>>
    THEN exist_rows(df, selected)[1].meas
    ELSE [i \in 1..NineMeasurements |-> 0]

new_row_t_StaleStats(selected, pummyeong, vendor, inputs, base) ==
    [pumbun |-> selected, pummyeong |-> pummyeong, vendor |-> vendor,
     meas |-> inputs, avg |-> avg(base), std |-> std(base)]

\* Lines 343-358; avg and std are those of this run's inputs (lines 326-336).
new_row_t(selected, pummyeong, vendor, inputs, base) ==
    [pumbun |-> selected, pummyeong |-> pummyeong, vendor |-> vendor,
     meas |-> inputs, avg |-> avg(inputs), std |-> std(inputs)]

\* What the users type.  The first config input is the form's defaults.
CfgInputs ==
    {[thickness_mm |-> 135, core_diam_cm |-> 90, mark_set_cm |-> 1145, labels_per_set |-> 5],
     [thickness_mm |-> 200, core_diam_cm |-> 76, mark_set_cm |-> 1000, labels_per_set |-> 3]}
VendorInputs == {"", "IJ Pack"}
MeasInputs ==
    {<<0, 0, 0, 0, 0, 0, 0, 0, 0>>, <<140, 135, 133, 0, 0, 0, 0, 0, 0>>}

NoOp == [table |-> "none"]
NoWriter == "none"
NoRow == [norow |-> TRUE]
PartNumbers == {"P1", "P2"}

\* The catalog of a running app (load_bom is cached for the process).
Catalog == bom_df.rows

\* Lines 124-130: a new session loads both tables into its session state.
\* (An app whose catalog is empty stops at st.stop() before that.)
StartSession(s) ==
    /\ s \notin started
    /\ Catalog # EmptyCatalog
    /\ Loadable(config_file) /\ Loadable(thick_file)
    /\ started' = started \cup {s}
    /\ config_df' = [config_df EXCEPT ![s] = load_config(config_file)]
    /\ thick_df' = [thick_df EXCEPT ![s] = load_thickness(thick_file)]
    /\ UNCHANGED <<bom_file, bom_df, calc_in, calc_out, stat_in, stat_out, config_file,
                   thick_file, last_op, last_writer, recent, n_saves>>

\* Lines 199-216: the "save this part's settings" button of tab 1.
SaveCfg(s, selected_pumbun, w) ==
    LET row == new_row(selected_pumbun, pummyeong_of(Catalog, selected_pumbun), w)
        up == config_upsert(config_df[s], selected_pumbun, row)
    IN  /\ s \in started
        /\ n_saves < MaxSaves
        /\ selected_pumbun \in pumbun_list(Catalog)
        /\ n_saves' = n_saves + 1
        /\ recent' = [recent EXCEPT !.config[s][selected_pumbun] = row]
        /\ IF up.raised
           THEN /\ last_op' = [table |-> "config", session |-> s, pumbun |-> selected_pumbun,
                               row |-> row, text_input |-> "", outcome |-> up.error]
                /\ UNCHANGED <<config_file, config_df, last_writer>>
           ELSE /\ config_file' = save_config(up.value, config_file)
                /\ config_df' = [config_df EXCEPT ![s] = up.value]
                /\ last_writer' = [last_writer EXCEPT !.config = s]
                /\ last_op' = [table |-> "config", session |-> s, pumbun |-> selected_pumbun,
                               row |-> row, text_input |-> "", outcome |-> "saved"]
        /\ UNCHANGED <<bom_file, bom_df, calc_in, calc_out, stat_in, stat_out, thick_file,
                       started, thick_df>>

\* Lines 279-367: the "save this part's measurements" button of tab 2.
SaveThickness(s, selected_pumbun2, text_input, inputs) ==
    LET row == new_row_t(selected_pumbun2, pummyeong_of(Catalog, selected_pumbun2),
                         vendor_of(thick_df[s], selected_pumbun2, text_input), inputs,
                         base_vals(thick_df[s], selected_pumbun2))
        up == thick_upsert(thick_df[s], selected_pumbun2, row)
    IN  /\ s \in started
        /\ n_saves < MaxSaves
        /\ selected_pumbun2 \in pumbun_list(Catalog)
        /\ n_saves' = n_saves + 1
        /\ recent' = [recent EXCEPT !.thickness[s][selected_pumbun2] = row]
        /\ IF up.raised
           THEN /\ last_op' = [table |-> "thickness", session |-> s,
                               pumbun |-> selected_pumbun2, row |-> row,
                               text_input |-> text_input, outcome |-> up.error]
                /\ UNCHANGED <<thick_file, thick_df, last_writer>>
           ELSE /\ thick_file' = save_thickness(up.value, thick_file)
                /\ thick_df' = [thick_df EXCEPT ![s] = up.value]
                /\ last_writer' = [last_writer EXCEPT !.thickness = s]
                /\ last_op' = [table |-> "thickness", session |-> s,
                               pumbun |-> selected_pumbun2, row |-> row,
                               text_input |-> text_input, outcome |-> "saved"]
        /\ UNCHANGED <<bom_file, bom_df, calc_in, calc_out, stat_in, stat_out, config_file,
                       started, config_df>>

\* What a to_csv that raises OSError can leave behind: the file as it was (the
\* open failed), or, the open having truncated it, nothing, or the header and
\* the first rows of the new table.
failed_to_csv(file, new_file) ==
    {file, [exists |-> TRUE, header |-> FALSE, rows |-> <<>>]}
    \cup {[exists |-> TRUE, header |-> TRUE, rows |-> SubSeq(new_file.rows, 1, k)] :
            k \in 0..(Len(new_file.rows) - 1)}

\* The tab 1 button when to_csv raises: line 62 is not reached.
SaveCfgWriteFails(s, selected_pumbun, w) ==
    LET row == new_row(selected_pumbun, pummyeong_of(Catalog, selected_pumbun), w)
        up == config_upsert(config_df[s], selected_pumbun, row)
    IN  /\ s \in started
        /\ n_saves < MaxSaves
        /\ selected_pumbun \in pumbun_list(Catalog)
        /\ ~up.raised
        /\ n_saves' = n_saves + 1
        /\ recent' = [recent EXCEPT !.config[s][selected_pumbun] = row]
        /\ config_file' \in failed_to_csv(config_file, config_to_csv(up.value))
        /\ last_op' = [table |-> "config", session |-> s, pumbun |-> selected_pumbun,
                       row |-> row, text_input |-> "", outcome |-> "OSError"]
        /\ UNCHANGED <<bom_file, bom_df, calc_in, calc_out, stat_in, stat_out, thick_file,
                       started, config_df, thick_df, last_writer>>

\* The tab 2 button when to_csv raises: line 85 is not reached.
SaveThicknessWriteFails(s, selected_pumbun2, text_input, inputs) ==
    LET row == new_row_t(selected_pumbun2, pummyeong_of(Catalog, selected_pumbun2),
                         vendor_of(thick_df[s], selected_pumbun2, text_input), inputs,
                         base_vals(thick_df[s], selected_pumbun2))
        up == thick_upsert(thick_df[s], selected_pumbun2, row)
    IN  /\ s \in started
        /\ n_saves < MaxSaves
        /\ selected_pumbun2 \in pumbun_list(Catalog)
        /\ ~up.raised
        /\ n_saves' = n_saves + 1
        /\ recent' = [recent EXCEPT !.thickness[s][selected_pumbun2] = row]
        /\ thick_file' \in failed_to_csv(thick_file, thick_to_csv(up.value))
        /\ last_op' = [table |-> "thickness", session |-> s, pumbun |-> selected_pumbun2,
                       row |-> row, text_input |-> text_input, outcome |-> "OSError"]
        /\ UNCHANGED <<bom_file, bom_df, calc_in, calc_out, stat_in, stat_out, config_file,
                       started, config_df, thick_df, last_writer>>

\* --------------------------------------------------------- specifications

CalcIdle == calc_in = None /\ calc_out = Pending
StatsIdle == stat_in = <<>> /\ stat_out = Pending
StoresIdle ==
    /\ config_file = AbsentFile
    /\ thick_file = AbsentFile
    /\ started = {}
    /\ config_df = [s \in Sessions |-> <<>>]
    /\ thick_df = [s \in Sessions |-> <<>>]
    /\ last_op = NoOp
    /\ last_writer = [config |-> NoWriter, thickness |-> NoWriter]
    /\ recent = [config |-> [s \in Sessions |-> [p \in PartNumbers |-> NoRow]],
                 thickness |-> [s \in Sessions |-> [p \in PartNumbers |-> NoRow]]]
    /\ n_saves = 0

\* The app on a fresh install: the BOM loaded, no CSV file yet, no session.
Init ==
    /\ bom_file = StoreBom
    /\ bom_df = [rows |-> load_bom(StoreBom)]
    /\ CalcIdle /\ StatsIdle /\ StoresIdle

Next ==
    \/ \E s \in Sessions : StartSession(s)
    \/ \E s \in Sessions, p \in pumbun_list(Catalog), w \in CfgInputs : SaveCfg(s, p, w)
    \/ \E s \in Sessions, p \in pumbun_list(Catalog), v \in VendorInputs, m \in MeasInputs :
          SaveThickness(s, p, v, m)

Spec == Init /\ [][Next]_vars

\* The same app on a disk whose writes can fail.
NextFail ==
    \/ Next
    \/ \E s \in Sessions, p \in pumbun_list(Catalog), w \in CfgInputs :
          SaveCfgWriteFails(s, p, w)
    \/ \E s \in Sessions, p \in pumbun_list(Catalog), v \in VendorInputs, m \in MeasInputs :
          SaveThicknessWriteFails(s, p, v, m)

SpecFail == Init /\ [][NextFail]_vars

\* load_bom on every BOM file up to MaxBomRows rows.
InitBom ==
    /\ bom_file \in BomFiles
    /\ bom_df = Pending
    /\ CalcIdle /\ StatsIdle /\ StoresIdle

SpecBom == InitBom /\ [][LoadBom]_vars

\* calc_labels_per_roll on every combination of the arguments.
InitCalc ==
    /\ bom_file = StoreBom
    /\ bom_df = Pending
    /\ calc_in \in CalcArgs
    /\ calc_out = Pending
    /\ StatsIdle /\ StoresIdle

SpecCalc == InitCalc /\ [][Calc]_vars

\* The statistics on every nine measurements of 0..MaxMeas.
InitStats ==
    /\ bom_file = StoreBom
    /\ bom_df = Pending
    /\ CalcIdle
    /\ stat_in \in [1..NineMeasurements -> 0..MaxMeas]
    /\ stat_out = Pending
    /\ StoresIdle

SpecStats == InitStats /\ [][Stats]_vars

\* ------------------------------------------------------------- properties

Degenerate(x) == x = None \/ RLe(x, Whole(0))

\* C2: whenever one of the five arguments is None or <= 0, or the roll
\* diameter is not greater than the core diameter (equal included),
\* calc_labels_per_roll returns 0 and does not raise.
C2_DegenerateInputsReturnZero ==
    (/\ calc_out # Pending
     /\ \/ Degenerate(calc_in.thickness_mm)
        \/ Degenerate(calc_in.roll_diam_cm)
        \/ Degenerate(calc_in.core_diam_cm)
        \/ Degenerate(calc_in.mark_set_cm)
        \/ Degenerate(calc_in.labels_per_set)
        \/ RLe(calc_in.roll_diam_cm, calc_in.core_diam_cm))
    => (~calc_out.raised /\ calc_out.value = 0)

\* A call with a missing mark-set length and a call with roll = core, both
\* answered 0.
C2_Witness ==
    /\ calc_out # Pending
    /\ ~calc_out.raised
    /\ calc_out.value = 0
    /\ calc_in.thickness_mm = Rat(135, 1000)
    /\ calc_in.roll_diam_cm = Whole(9)
    /\ calc_in.core_diam_cm = Whole(9)
    /\ calc_in.mark_set_cm = None
    /\ calc_in.labels_per_set = Whole(5)

ValidCalcArgs ==
    /\ ~Degenerate(calc_in.thickness_mm)
    /\ ~Degenerate(calc_in.roll_diam_cm)
    /\ ~Degenerate(calc_in.core_diam_cm)
    /\ ~Degenerate(calc_in.mark_set_cm)
    /\ calc_in.labels_per_set # None
    /\ RLe(Whole(1), calc_in.labels_per_set)
    /\ ~RLe(calc_in.roll_diam_cm, calc_in.core_diam_cm)

\* The mark sets on the roll, every length in millimetres:
\* pi * (roll^2 - core^2) / (4 * thickness), over the mark-set length.
SetsOnRoll ==
    LET roll_mm == RMul(Whole(10), calc_in.roll_diam_cm)
        core_mm == RMul(Whole(10), calc_in.core_diam_cm)
        length_mm == RDiv(RMul(Pi, RSub(RMul(roll_mm, roll_mm), RMul(core_mm, core_mm))),
                          RMul(Whole(4), calc_in.thickness_mm))
    IN  RDiv(length_mm, RMul(Whole(10), calc_in.mark_set_cm))

CompleteSets == SetsOnRoll.n \div SetsOnRoll.d

\* value = k * x for a natural number k
IsNaturalMultipleOf(value, x) == value >= 0 /\ (value * x.d) % x.n = 0

Measured(m) == {i \in DOMAIN m : m[i] > 0}

RECURSIVE SumOver(_, _)
SumOver(S, F) ==
    IF S = {} THEN Whole(0)
    ELSE LET i == CHOOSE j \in S : TRUE
         IN  RAdd(F[i], SumOver(S \ {i}, F))

ArithmeticMean(m) ==
    IF Measured(m) = {} THEN Whole(0)
    ELSE RDiv(SumOver(Measured(m), [i \in DOMAIN m |-> Whole(m[i])]),
              Whole(Cardinality(Measured(m))))

\* The sum of the squared deviations from the mean over n - 1.
SampleVariance(m) ==
    IF Cardinality(Measured(m)) < 2 THEN Whole(0)
    ELSE RDiv(SumOver(Measured(m),
                      [i \in DOMAIN m |->
                          RMul(RSub(Whole(m[i]), ArithmeticMean(m)),
                               RSub(Whole(m[i]), ArithmeticMean(m)))]),
              Whole(Cardinality(Measured(m)) - 1))

\* C5: the mean is the arithmetic mean of the measurements greater than 0
\* (0.0 when there is none); the stdev is the sample (n-1) standard deviation
\* of the same measurements, 0.0 when there are fewer than two.
C5_MeanAndSampleStdev ==
    stat_out # Pending =>
        /\ stat_out.avg = ArithmeticMean(stat_in)
        /\ stat_out.std = Sqrt(SampleVariance(stat_in))

\* Nine measurements with unmeasured positions and two different values.
C5_Witness ==
    /\ stat_out # Pending
    /\ \E i, j, k \in 1..NineMeasurements : stat_in[i] = 0 /\ stat_in[j] = 1 /\ stat_in[k] = 2
    /\ stat_out.std # Sqrt(Whole(0))
    /\ stat_out.avg.d # 1

\* C8: from a sheet with both columns, the catalog has no row without a part
\* number and no part number twice; every part number of the sheet is there
\* once, with the part name of its first row in the sheet.
C8_CatalogUniqueFirstName ==
    (bom_df # Pending /\ bom_file.exists /\ bom_file.readable /\ bom_file.has_columns) =>
        LET cat == bom_df.rows
            src == bom_file.rows
        IN  /\ \A i \in 1..Len(cat) : cat[i].pumbun # NaN
            /\ \A i, j \in 1..Len(cat) : cat[i].pumbun = cat[j].pumbun => i = j
            /\ \A i \in 1..Len(cat) : \E k \in 1..Len(src) : src[k].pumbun = cat[i].pumbun
            /\ \A k \in 1..Len(src) :
                  src[k].pumbun # NaN =>
                      \E i \in 1..Len(cat) :
                          /\ cat[i].pumbun = src[k].pumbun
                          /\ \E f \in 1..k :
                                /\ src[f].pumbun = src[k].pumbun
                                /\ \A g \in 1..(f - 1) : src[g].pumbun # src[k].pumbun
                                /\ cat[i].pummyeong = src[f].pummyeong

\* A sheet with a row without part number and one part number under two names.
C8_Witness ==
    /\ bom_df # Pending
    /\ bom_file.has_columns
    /\ Len(bom_file.rows) = 3
    /\ bom_file.rows[1].pumbun = NaN
    /\ bom_file.rows[2].pumbun = "P1"
    /\ bom_file.rows[3].pumbun = "P1"
    /\ bom_file.rows[2].pummyeong # bom_file.rows[3].pummyeong
    /\ bom_df.rows = <<bom_file.rows[2]>>

TableOf(op) == IF op.table = "config" THEN config_df[op.session] ELSE thick_df[op.session]

\* C1: after any save clicks, a session's table holds exactly one row for
\* every part number saved in it, and that row carries the field values of
\* the latest save of that part number.
C1_OneRowWithLatestValues ==
    \A s \in started, p \in PartNumbers :
        /\ recent.config[s][p] # NoRow =>
              /\ Cardinality(index_of(config_df[s], p)) = 1
              /\ \A i \in index_of(config_df[s], p) : config_df[s][i] = recent.config[s][p]
        /\ recent.thickness[s][p] # NoRow =>
              /\ Cardinality(index_of(thick_df[s], p)) = 1
              /\ \A i \in index_of(thick_df[s], p) : thick_df[s][i] = recent.thickness[s][p]

\* C4: every row of the thickness table, in a session or on disk, carries the
\* mean and the stdev of its own nine measurements.
C4_StatsOfOwnMeasurements ==
    /\ \A s \in started : \A i \in 1..Len(thick_df[s]) :
          /\ thick_df[s][i].avg = ArithmeticMean(thick_df[s][i].meas)
          /\ thick_df[s][i].std = Sqrt(SampleVariance(thick_df[s][i].meas))
    /\ \A i \in 1..Len(thick_file.rows) :
          /\ thick_file.rows[i].avg = ArithmeticMean(thick_file.rows[i].meas)
          /\ thick_file.rows[i].std = Sqrt(SampleVariance(thick_file.rows[i].meas))

\* Two thickness saves in one session, the second with other measurements
\* than the first, both rows written to disk.
C4_Witness ==
    \E s \in started :
        /\ Len(thick_df[s]) = 2
        /\ thick_df[s][1].meas # thick_df[s][2].meas
        /\ thick_df[s][2].std # Sqrt(Whole(0))
        /\ thick_file = thick_to_csv(thick_df[s])

\* A save click whose outcome is known: it was written, or the replace raised.
SaveClick == n_saves' = n_saves + 1 /\ last_op'.outcome # "OSError"

\* C6: a save of a part number that has a row replaces that row where it is
\* and leaves the other rows, their number and their order alone; a save of
\* a part number without a row appends one row and leaves the others alone.
C6_ReplaceInPlaceOrAppend ==
    [][SaveClick =>
          LET old == TableOf(last_op')
              new == IF last_op'.table = "config" THEN config_df'[last_op'.session]
                     ELSE thick_df'[last_op'.session]
              idx == index_of(old, last_op'.pumbun)
          IN  IF idx # {}
              THEN new = [i \in 1..Len(old) |-> IF i \in idx THEN last_op'.row ELSE old[i]]
              ELSE new = Append(old, last_op'.row)]_vars

\* C7: a thickness save of a part number that has a row stores the row's old
\* vendor when the vendor input is blank, and the input when it is not.
C7_VendorKeptOrTaken ==
    [][(SaveClick /\ last_op'.table = "thickness"
           /\ index_of(thick_df[last_op'.session], last_op'.pumbun) # {}) =>
          \A i \in index_of(thick_df[last_op'.session], last_op'.pumbun) :
              thick_df'[last_op'.session][i].vendor =
                  IF last_op'.text_input = ""
                  THEN thick_df[last_op'.session][i].vendor
                  ELSE last_op'.text_input]_vars

HasRow(df, p) == \E i \in 1..Len(df) : df[i].pumbun = p

\* C9: each file equals the table of the session whose save was written last;
\* a part number only the other session holds has no row in it; and the only
\* save that is not written is one of a part number the session's own table
\* has a row for, whatever the file holds.
C9_FileIsLastWritersTable ==
    /\ last_writer.config # NoWriter =>
          /\ config_file = config_to_csv(config_df[last_writer.config])
          /\ \A o \in started, p \in PartNumbers :
                (HasRow(config_df[o], p) /\ ~HasRow(config_df[last_writer.config], p))
                    => ~HasRow(config_file.rows, p)
    /\ last_writer.thickness # NoWriter =>
          /\ thick_file = thick_to_csv(thick_df[last_writer.thickness])
          /\ \A o \in started, p \in PartNumbers :
                (HasRow(thick_df[o], p) /\ ~HasRow(thick_df[last_writer.thickness], p))
                    => ~HasRow(thick_file.rows, p)
    /\ (last_op # NoOp /\ last_op.outcome # "saved") =>
          HasRow(TableOf(last_op), last_op.pumbun)
    /\ (last_op # NoOp /\ last_op.outcome = "saved") =>
          last_writer[last_op.table] = last_op.session

\* Both sessions started on the empty table; s1 saved P1, then s2 saved P2:
\* the file holds s2's table, and s1's P1 is not in it.
C9_Witness ==
    /\ last_writer.config = "s2"
    /\ HasRow(config_df["s1"], "P1")
    /\ ~HasRow(config_df["s2"], "P1")
    /\ HasRow(config_df["s2"], "P2")
    /\ ~HasRow(config_file.rows, "P1")
    /\ config_file = config_to_csv(config_df["s2"])

\* C10: a save whose write fails leaves both files exactly as they were.
C10_FailedWriteLeavesFile ==
    [][(n_saves' = n_saves + 1 /\ last_op'.outcome = "OSError") =>
          (config_file' = config_file /\ thick_file' = thick_file)]_vars

====
